---- MODULE Spec2Model ----
(***************************************************************************)
(* Model of src/pages/index.tsx: the chunk store returned by getStore      *)
(* (state, subscribers, subscribe, onFileSelect, acknowledgeChunk,         *)
(* readChunk, hasNextChunk), the module-level subscriber that drives a     *)
(* selected file into a writable (the "driver"), and the UDPSocket buttons *)
(* that call acknowledgeChunk / readChunk by hand.                         *)
(*                                                                         *)
(* JavaScript runs one handler at a time, so every action below is one     *)
(* whole handler: the synchronous code from an event (a click, a file      *)
(* selection, a FileReader load, a settled promise) up to the next await.  *)
(***************************************************************************)
EXTENDS Integers, Sequences, FiniteSets, TLC

(* ------------------------------ bounds -------------------------------- *)
MaxFiles == 1      \* file selections in a run
MaxSize == 5       \* largest file.size selected
ChunkSize == 2     \* the options.chunkSize the store is built with
MaxClicks == 1     \* clicks on the UDPSocket buttons in a run

Names == {"a"}                  \* file.name values
Listeners == {"s1", "s2"}       \* callbacks passed to subscribe besides the driver
Driver == "driver"              \* the callback subscribed at index.tsx:121
None == "none"

VARIABLES
  chunkSize,     \* options.chunkSize, fixed by getStore(options)
  unreadable,    \* offset of a byte range the file cannot deliver (NoOffset: none fixed)
  state,         \* State: fileKey -> {left, right, file}; file is its size
  subscribers,   \* the Set of callbacks, in insertion order
  clock,         \* the last value Date.now() returned to onFileSelect
  drivers,       \* one activation of the async subscriber per file-select
  manual,        \* readChunk promises started from the UDPSocket button
  clicks,        \* UDPSocket clicks so far
  alerted,       \* what the latest handler passed to alert (NoAlert: nothing)
  delivered,     \* what the latest handler called the listeners with: the event
                 \* and the listeners called, in call order (NoDelivery: no call)
  acks,          \* per fileKey: successful acknowledgeChunk calls so far
  lastRange,     \* per fileKey: range of the last slice taken since the last advance
  heard          \* history, kept in SpecTraces only: per listener and fileKey,
                 \* where the events it was called with stand in the pattern
                 \* file-select (chunk-read+ chunk-acknowledge)* chunk-read*

vars == <<chunkSize, unreadable, state, subscribers, clock, drivers, manual, clicks,
          alerted, delivered, acks, lastRange, heard>>

Min(a, b) == IF a <= b THEN a ELSE b

\* fileKey = file.name + Date.now(): Date.now() has a fixed number of digits,
\* so the concatenation determines the pair and the pair stands for the string.
FileKey(name, now) == <<name, now>>
Keys == Names \X (1..MaxFiles)

\* state is a plain object ({} at line 26), so state[fileKey] also finds what
\* the object inherits from Object.prototype: for each of these strings it is
\* a function or an object (truthy) whose left and right are both undefined.
\* A one-element tuple stands for such a string; no key that onFileSelect
\* makes is one of them, because every such key ends in the digits of Date.now().
ObjectPrototype ==
  {<<n>> : n \in {"constructor", "toString", "toLocaleString", "valueOf",
                   "hasOwnProperty", "isPrototypeOf", "propertyIsEnumerable",
                   "__proto__", "__defineGetter__", "__defineSetter__",
                   "__lookupGetter__", "__lookupSetter__"}}

\* state[fileKey] is truthy without being an entry that onFileSelect stored
Inherited(st, fileKey) == fileKey \notin DOMAIN st /\ fileKey \in ObjectPrototype

\* the strings typed into the fileKey input of UDPSocket
TypedKeys == Keys \cup {<<"constructor">>}

NoOffset == 0 - 1
NoRange == <<>>
Range(w) == <<w.left, w.right>>

(* ------------------------------ the store ----------------------------- *)

\* a first window that is not clamped to the file's size
NewWindowUnclamped(c, size) == [left |-> 0, right |-> c, size |-> size]

\* the entry onFileSelect stores for a file of the given size
NewWindow(c, size) == [left |-> 0, right |-> Min(c, size), size |-> size]

\* acknowledgeChunk without the clamp to file.size
AdvanceUnclamped(c, w) == [w EXCEPT !.left = w.right, !.right = w.right + c]

\* acknowledgeChunk computing the new right from the left it has just replaced
AdvanceFromLeft(c, w) == [w EXCEPT !.left = w.right, !.right = Min(w.left + c, w.size)]

\* the two assignments of acknowledgeChunk
Advance(c, w) == [w EXCEPT !.left = w.right, !.right = Min(w.right + c, w.size)]

\* hasNextChunk testing whether right has reached the end of the file
HasNextChunkByRight(st, fileKey) ==
  IF fileKey \notin DOMAIN st THEN FALSE   \* inherited: undefined on both sides
  ELSE st[fileKey].right # st[fileKey].size

\* for an inherited member line 114 compares undefined with undefined
HasNextChunk(st, fileKey) ==
  IF Inherited(st, fileKey) THEN FALSE
  ELSE IF fileKey \notin DOMAIN st THEN FALSE
  ELSE st[fileKey].left # st[fileKey].right

\* acknowledgeChunk without the test for an exhausted window
AcknowledgeChunkNoEof(st, c, fileKey) ==
  IF Inherited(st, fileKey) THEN [err |-> "TypeError", state |-> st]
  ELSE IF fileKey \notin DOMAIN st THEN [err |-> "no-file", state |-> st]
  ELSE [err |-> "ok", state |-> [st EXCEPT ![fileKey] = Advance(c, @)]]

\* acknowledgeChunk up to (not including) the notification of the subscribers.
\* An inherited member passes the !fileMeta test of line 67 and fails the test
\* of line 70, undefined === undefined.
AcknowledgeChunk(st, c, fileKey) ==
  IF Inherited(st, fileKey) THEN [err |-> "eof", state |-> st]
  ELSE IF fileKey \notin DOMAIN st THEN [err |-> "no-file", state |-> st]
  ELSE IF st[fileKey].left = st[fileKey].right THEN [err |-> "eof", state |-> st]
  ELSE [err |-> "ok", state |-> [st EXCEPT ![fileKey] = Advance(c, @)]]

\* readChunk that moves the window on when it takes its slice
ReadChunkAdvancing(st, fileKey) ==
  IF Inherited(st, fileKey) THEN [err |-> "eof", range |-> NoRange, state |-> st]
  ELSE IF fileKey \notin DOMAIN st THEN [err |-> "no-file", range |-> NoRange, state |-> st]
  ELSE IF st[fileKey].left = st[fileKey].right
       THEN [err |-> "eof", range |-> NoRange, state |-> st]
  ELSE [err |-> "ok", range |-> Range(st[fileKey]),
        state |-> [st EXCEPT ![fileKey] = Advance(chunkSize, @)]]

\* readChunk slicing from left to the end of the file
ReadChunkToEnd(st, fileKey) ==
  IF Inherited(st, fileKey) THEN [err |-> "eof", range |-> NoRange, state |-> st]
  ELSE IF fileKey \notin DOMAIN st THEN [err |-> "no-file", range |-> NoRange, state |-> st]
  ELSE IF st[fileKey].left = st[fileKey].right
       THEN [err |-> "eof", range |-> NoRange, state |-> st]
  ELSE [err |-> "ok", range |-> <<st[fileKey].left, st[fileKey].size>>, state |-> st]

\* the synchronous part of readChunk: the promise executor. "ok" means a
\* FileReader was started on file.slice(left, right); range is that slice.
\* An inherited member passes line 89 and is rejected at line 92.
ReadChunk(st, fileKey) ==
  IF Inherited(st, fileKey) THEN [err |-> "eof", range |-> NoRange, state |-> st]
  ELSE IF fileKey \notin DOMAIN st THEN [err |-> "no-file", range |-> NoRange, state |-> st]
  ELSE IF st[fileKey].left = st[fileKey].right
       THEN [err |-> "eof", range |-> NoRange, state |-> st]
  ELSE [err |-> "ok", range |-> Range(st[fileKey]), state |-> st]

InSeq(x, s) == \E i \in 1..Len(s) : s[i] = x
Remove(s, x) == SelectSeq(s, LAMBDA y : y # x)
Elems(s) == {s[i] : i \in 1..Len(s)}

\* What the callbacks do with the unsubscribe handles while they are being
\* called: plan[s] is the subscriber whose handle listener s invokes (None:
\* it invokes none). The driver keeps no handle (the value returned at line
\* 121 is dropped) and its callback returns at its first await.
Plans(subs) ==
  [Elems(subs) \cap Listeners -> (Elems(subs) \cap Listeners) \cup {None}]

\* subscribers.forEach(s => s(e)) over the live Set: entries are visited in
\* insertion order and an entry deleted before its turn is not visited.
RECURSIVE ForEach(_, _, _, _)
ForEach(order, i, live, plan) ==
  IF i > Len(order) THEN [to |-> <<>>, live |-> live]
  ELSE IF order[i] \notin live THEN ForEach(order, i + 1, live, plan)
  ELSE LET rest == ForEach(order, i + 1,
                           live \ {IF order[i] \in DOMAIN plan THEN plan[order[i]] ELSE None},
                           plan)
       IN [to |-> <<order[i]>> \o rest.to, live |-> rest.live]

\* a notification that stops after the first subscriber
NotifyFirst(subs, plan) ==
  [to |-> IF subs = <<>> THEN <<>> ELSE <<subs[1]>>, subscribers |-> subs]

\* one notification: who was called, and the Set afterwards
Notify(subs, plan) ==
  LET r == ForEach(subs, 1, Elems(subs), plan)
  IN [to |-> r.to, subscribers |-> SelectSeq(subs, LAMBDA y : y \in r.live)]

Event(name, fileKey) == [name |-> name, fileKey |-> fileKey]
NoEvent == Event(None, <<>>)
NoDelivery == [event |-> NoEvent, to |-> <<>>]
Delivery(e, to) ==
  LET called == SelectSeq(to, LAMBDA s : s \in Listeners)
  IN IF called = <<>> THEN NoDelivery ELSE [event |-> e, to |-> called]
NoAlert == [fn |-> None, args |-> <<>>, e |-> None]
Alert(fn, fileKey, e) == [fn |-> fn, args |-> fileKey, e |-> e]

(* ------------------------------ the driver ---------------------------- *)

\* an activation of the subscriber of line 121, suspended in showSaveFilePicker
NewDriver(fileKey) ==
  [fileKey |-> fileKey, pc |-> "picker", errorCount |-> 0, chunk |-> NoRange,
   reader |-> "idle", sink |-> "none", closes |-> 0, written |-> <<>>,
   acked |-> 0, reads |-> 0, streak |-> 0, at |-> 0]

\* a loop that gives up at the second failure
RECURSIVE DriveBudgetTwo(_, _)
DriveBudgetTwo(st, d) ==
  IF HasNextChunk(st, d.fileKey) /\ d.errorCount < 2
  THEN LET rc == ReadChunk(st, d.fileKey) IN
       IF rc.err = "ok"
       THEN [drv |-> [d EXCEPT !.pc = "reading", !.chunk = rc.range,
                               !.reader = "loading", !.reads = @ + 1],
             state |-> rc.state]
       ELSE DriveBudgetTwo(rc.state, [d EXCEPT !.errorCount = @ + 1, !.streak = @ + 1,
                                               !.reads = @ + 1])
  ELSE [drv |-> [d EXCEPT !.pc = "done", !.chunk = NoRange, !.reader = "idle",
                          !.sink = IF @ = "open" THEN "closed" ELSE @,
                          !.closes = @ + 1],
        state |-> st]

\* a loop that closes the writer only when nothing is left to read
RECURSIVE DriveLeaking(_, _)
DriveLeaking(st, d) ==
  IF HasNextChunk(st, d.fileKey) /\ d.errorCount < 3
  THEN LET rc == ReadChunk(st, d.fileKey) IN
       IF rc.err = "ok"
       THEN [drv |-> [d EXCEPT !.pc = "reading", !.chunk = rc.range,
                               !.reader = "loading", !.reads = @ + 1],
             state |-> rc.state]
       ELSE DriveLeaking(rc.state, [d EXCEPT !.errorCount = @ + 1, !.streak = @ + 1, !.reads = @ + 1])
  ELSE IF HasNextChunk(st, d.fileKey)
  THEN [drv |-> [d EXCEPT !.pc = "done", !.chunk = NoRange, !.reader = "idle"],
        state |-> st]
  ELSE [drv |-> [d EXCEPT !.pc = "done", !.chunk = NoRange, !.reader = "idle",
                          !.sink = IF @ = "open" THEN "closed" ELSE @,
                          !.closes = @ + 1],
        state |-> st]

\* lines 134-144 from the loop test to the next suspension: either readChunk
\* starts a FileReader and the driver awaits it, or a synchronous rejection is
\* caught and counted and the test runs again, or the loop ends and the
\* writer is closed.
RECURSIVE Drive(_, _)
Drive(st, d) ==
  IF HasNextChunk(st, d.fileKey) /\ d.errorCount < 3
  THEN LET rc == ReadChunk(st, d.fileKey) IN
       IF rc.err = "ok"
       THEN [drv |-> [d EXCEPT !.pc = "reading", !.chunk = rc.range,
                               !.reader = "loading", !.reads = @ + 1],
             state |-> rc.state]
       ELSE Drive(rc.state, [d EXCEPT !.errorCount = @ + 1, !.streak = @ + 1, !.reads = @ + 1])
  ELSE [drv |-> [d EXCEPT !.pc = "done", !.chunk = NoRange, !.reader = "idle",
                          !.sink = IF @ = "open" THEN "closed" ELSE @,
                          !.closes = @ + 1],
        state |-> st]

\* history: a driver that has just called readChunk notes in `at' how many
\* acknowledgements its key had had at the call
Called(drv, n) == IF drv.pc = "reading" THEN [drv EXCEPT !.at = n] ELSE drv

\* the range recorded for fileKey after a driver step
Sliced(lr, d) ==
  IF d.pc = "reading" THEN [lr EXCEPT ![d.fileKey] = d.chunk] ELSE lr

(* ------------------------------ Init ---------------------------------- *)

\* the store and the page right after the module is loaded
Loaded ==
  /\ state = <<>>
  /\ subscribers = <<Driver>>
  /\ clock = 0
  /\ drivers = <<>>
  /\ manual = <<>>
  /\ clicks = 0
  /\ alerted = NoAlert
  /\ delivered = NoDelivery
  /\ acks = <<>>
  /\ lastRange = <<>>
  /\ heard = [p \in Listeners \X Keys |-> [q |-> "none", stayed |-> FALSE]]

Init ==
  /\ chunkSize = ChunkSize
  /\ unreadable = NoOffset
  /\ Loaded

Sizes == 0..MaxSize

(* ------------------------------ subscribe ----------------------------- *)

\* subscribe(cb) for a callback not in the Set
Subscribe(s) ==
  /\ ~InSeq(s, subscribers)
  /\ subscribers' = Append(subscribers, s)
  /\ delivered' = NoDelivery
  /\ alerted' = NoAlert
  /\ UNCHANGED <<chunkSize, unreadable, state, clock, drivers, manual, clicks, acks, lastRange>>

\* the function subscribe returned, called outside any notification
Unsubscribe(s) ==
  /\ InSeq(s, subscribers)
  /\ subscribers' = Remove(subscribers, s)
  /\ alerted' = NoAlert
  /\ delivered' = NoDelivery
  /\ UNCHANGED <<chunkSize, unreadable, state, clock, drivers, manual, clicks, acks, lastRange>>

(* ------------------------------ onFileSelect -------------------------- *)

\* onFileSelect for a file (name, size) when Date.now() returns `now'
Selected(name, size, now, plan) ==
  LET fileKey == FileKey(name, now)
      n == Notify(subscribers, plan)
      e == Event("file-select", fileKey)
      w == NewWindow(chunkSize, size)
  IN /\ clock' = now
     /\ state' = [k \in DOMAIN state \cup {fileKey} |-> IF k = fileKey THEN w ELSE state[k]]
     /\ acks' = [k \in DOMAIN state \cup {fileKey} |-> IF k = fileKey THEN 0 ELSE acks[k]]
     /\ lastRange' = [k \in DOMAIN state \cup {fileKey} |->
                        IF k = fileKey THEN NoRange ELSE lastRange[k]]
     /\ subscribers' = n.subscribers
     /\ delivered' = Delivery(e, n.to)
     /\ drivers' = IF InSeq(Driver, n.to) THEN Append(drivers, NewDriver(fileKey)) ELSE drivers
     /\ alerted' = NoAlert
     /\ UNCHANGED <<chunkSize, unreadable, manual, clicks>>

\* onFileSelect while fewer than MaxFiles files have been selected
Register(name, size, now, plan) ==
  /\ Len(drivers) < MaxFiles
  /\ Selected(name, size, now, plan)

\* a file selection in a later millisecond than the previous one, the file's
\* size drawn from S
OnFileSelectOf(S) ==
  \E name \in Names, size \in S, plan \in Plans(subscribers) :
    Register(name, size, clock + 1, plan)

OnFileSelect == OnFileSelectOf(Sizes)

\* <input type="file"> fires change with no file chosen: e.target.files?.[0]
\* is undefined and onFileSelect returns at once
OnFileSelectNone ==
  /\ alerted # NoAlert \/ delivered # NoDelivery
  /\ alerted' = NoAlert
  /\ delivered' = NoDelivery
  /\ UNCHANGED <<chunkSize, unreadable, state, subscribers, clock, drivers, manual, clicks, acks, lastRange>>

(* ------------------------------ UDPSocket ----------------------------- *)

\* click on the acknowledgeChunk button with fileKey typed into the input:
\* withError(store.acknowledgeChunk, fileKey)
ClickAcknowledge(fileKey, plan) ==
  LET a == AcknowledgeChunk(state, chunkSize, fileKey)
      n == Notify(subscribers, plan)
  IN /\ clicks < MaxClicks
     /\ clicks' = clicks + 1
     /\ state' = a.state
     /\ IF a.err = "ok"
        THEN /\ subscribers' = n.subscribers
             /\ delivered' = Delivery(Event("chunk-acknowledge", fileKey), n.to)
             /\ acks' = [acks EXCEPT ![fileKey] = @ + 1]
             /\ lastRange' = [lastRange EXCEPT ![fileKey] = NoRange]
             /\ alerted' = NoAlert
        ELSE /\ alerted' = Alert("acknowledgeChunk", fileKey, a.err)
             /\ delivered' = NoDelivery
             /\ UNCHANGED <<subscribers, acks, lastRange>>
     /\ UNCHANGED <<chunkSize, unreadable, clock, drivers, manual>>

\* click on the readChunk button: withError(store.readChunk, fileKey) runs the
\* promise executor and then awaits the promise
ClickRead(fileKey) ==
  LET rc == ReadChunk(state, fileKey)
  IN /\ clicks < MaxClicks
     /\ clicks' = clicks + 1
     /\ state' = rc.state
     /\ IF rc.err = "ok"
        THEN /\ manual' = Append(manual, [fileKey |-> fileKey, chunk |-> rc.range,
                                          reader |-> "loading", at |-> acks[fileKey]])
             /\ lastRange' = [lastRange EXCEPT ![fileKey] = rc.range]
             /\ alerted' = NoAlert
        ELSE /\ alerted' = Alert("readChunk", fileKey, rc.err)
             /\ UNCHANGED <<manual, lastRange>>
     /\ delivered' = NoDelivery
     /\ UNCHANGED <<chunkSize, unreadable, subscribers, clock, drivers, acks>>

Drop(s, i) == SubSeq(s, 1, i - 1) \o SubSeq(s, i + 1, Len(s))

\* reader.onload with an ArrayBuffer: resolve(chunk), then the notification
ClickReadLoad(i, plan) ==
  LET m == manual[i]
      n == Notify(subscribers, plan)
  IN /\ m.reader = "loading"
     /\ manual' = Drop(manual, i)
     /\ subscribers' = n.subscribers
     /\ delivered' = Delivery(Event("chunk-read", m.fileKey), n.to)
     /\ alerted' = NoAlert
     /\ UNCHANGED <<chunkSize, unreadable, state, clock, drivers, clicks, acks, lastRange>>

\* reader.onload with a result that is null or a string: reject("no-chunk")
ClickReadNoChunk(i) ==
  LET m == manual[i]
  IN /\ m.reader = "loading"
     /\ manual' = Drop(manual, i)
     /\ alerted' = Alert("readChunk", m.fileKey, "no-chunk")
     /\ delivered' = NoDelivery
     /\ UNCHANGED <<chunkSize, unreadable, state, subscribers, clock, drivers, clicks, acks, lastRange>>

\* the FileReader ends with an error event: no handler is installed for it,
\* so the promise is neither resolved nor rejected
ClickReadError(i) ==
  /\ manual[i].reader = "loading"
  /\ manual' = [manual EXCEPT ![i].reader = "failed"]
  /\ alerted' = NoAlert
  /\ delivered' = NoDelivery
  /\ UNCHANGED <<chunkSize, unreadable, state, subscribers, clock, drivers, clicks, acks, lastRange>>

(* ------------------------------ driver steps -------------------------- *)

\* showSaveFilePicker resolves: handle.createWritable() is called and awaited
PickerResolve(i) ==
  /\ drivers[i].pc = "picker"
  /\ drivers' = [drivers EXCEPT ![i].pc = "creating"]
  /\ alerted' = NoAlert
  /\ delivered' = NoDelivery
  /\ UNCHANGED <<chunkSize, unreadable, state, subscribers, clock, manual, clicks, acks, lastRange>>

\* showSaveFilePicker or createWritable rejects: the async callback ends with
\* that rejection before any writer exists
OpenReject(i) ==
  /\ drivers[i].pc \in {"picker", "creating"}
  /\ drivers' = [drivers EXCEPT ![i].pc = "aborted"]
  /\ alerted' = NoAlert
  /\ delivered' = NoDelivery
  /\ UNCHANGED <<chunkSize, unreadable, state, subscribers, clock, manual, clicks, acks, lastRange>>

\* createWritable resolves: the writer exists and the loop starts
CreateResolve(i) ==
  LET r == Drive(state, [drivers[i] EXCEPT !.sink = "open"])
  IN /\ drivers[i].pc = "creating"
     /\ drivers' = [drivers EXCEPT ![i] = Called(r.drv, acks[drivers[i].fileKey])]
     /\ state' = r.state
     /\ lastRange' = Sliced(lastRange, r.drv)
     /\ alerted' = NoAlert
     /\ delivered' = NoDelivery
     /\ UNCHANGED <<chunkSize, unreadable, subscribers, clock, manual, clicks, acks>>

\* reader.onload without the notification of the subscribers
ReadLoadSilent(i, plan) ==
  LET d == drivers[i]
  IN /\ d.pc = "reading" /\ d.reader = "loading"
     /\ drivers' = [drivers EXCEPT ![i].pc = "writing", ![i].reader = "idle"]
     /\ alerted' = NoAlert
     /\ delivered' = NoDelivery
     /\ UNCHANGED <<chunkSize, unreadable, state, subscribers, clock, manual, clicks, acks, lastRange>>

\* the driver's reader.onload with an ArrayBuffer: resolve(chunk), the
\* notification, then the continuation calls writer.write(chunk)
ReadLoad(i, plan) ==
  LET d == drivers[i]
      n == Notify(subscribers, plan)
  IN /\ d.pc = "reading" /\ d.reader = "loading"
     /\ subscribers' = n.subscribers
     /\ delivered' = Delivery(Event("chunk-read", d.fileKey), n.to)
     /\ drivers' = [drivers EXCEPT ![i].pc = "writing", ![i].reader = "idle"]
     /\ alerted' = NoAlert
     /\ UNCHANGED <<chunkSize, unreadable, state, clock, manual, clicks, acks, lastRange>>

\* a catch block that acknowledges the chunk it failed on
CaughtAcknowledging(st, d) ==
  Drive(AcknowledgeChunk(st, chunkSize, d.fileKey).state,
        [d EXCEPT !.errorCount = @ + 1, !.streak = @ + 1, !.reader = "idle"])

\* the catch block and the next turn of the loop
Caught(st, d) == Drive(st, [d EXCEPT !.errorCount = @ + 1, !.streak = @ + 1, !.reader = "idle"])

\* the driver's reader.onload with null or a string: reject("no-chunk")
ReadNoChunk(i) ==
  LET r == Caught(state, drivers[i])
  IN /\ drivers[i].pc = "reading" /\ drivers[i].reader = "loading"
     /\ drivers' = [drivers EXCEPT ![i] = Called(r.drv, acks[drivers[i].fileKey])]
     /\ state' = r.state
     /\ lastRange' = Sliced(lastRange, r.drv)
     /\ alerted' = NoAlert
     /\ delivered' = NoDelivery
     /\ UNCHANGED <<chunkSize, unreadable, subscribers, clock, manual, clicks, acks>>

\* the driver's FileReader ends with an error event: await never resumes
ReadError(i) ==
  /\ drivers[i].pc = "reading" /\ drivers[i].reader = "loading"
  /\ drivers' = [drivers EXCEPT ![i].reader = "failed"]
  /\ alerted' = NoAlert
  /\ delivered' = NoDelivery
  /\ UNCHANGED <<chunkSize, unreadable, state, subscribers, clock, manual, clicks, acks, lastRange>>

\* writer.write(chunk) resolves: acknowledgeChunk, then the next turn
WriteResolve(i, plan) ==
  LET d == [drivers[i] EXCEPT !.written = Append(@, drivers[i].chunk)]
      a == AcknowledgeChunk(state, chunkSize, d.fileKey)
      n == Notify(subscribers, plan)
      r == IF a.err = "ok" THEN Drive(a.state, [d EXCEPT !.acked = @ + 1, !.streak = 0])
           ELSE Caught(a.state, d)
  IN /\ drivers[i].pc = "writing"
     /\ drivers' = [drivers EXCEPT ![i] =
                      Called(r.drv, acks[d.fileKey] + IF a.err = "ok" THEN 1 ELSE 0)]
     /\ state' = r.state
     /\ IF a.err = "ok"
        THEN /\ subscribers' = n.subscribers
             /\ delivered' = Delivery(Event("chunk-acknowledge", d.fileKey), n.to)
             /\ acks' = [acks EXCEPT ![d.fileKey] = @ + 1]
             /\ lastRange' = Sliced([lastRange EXCEPT ![d.fileKey] = NoRange], r.drv)
        ELSE /\ lastRange' = Sliced(lastRange, r.drv)
             /\ delivered' = NoDelivery
             /\ UNCHANGED <<subscribers, acks>>
     /\ alerted' = NoAlert
     /\ UNCHANGED <<chunkSize, unreadable, clock, manual, clicks>>

\* a rejected write after which the chunk is acknowledged all the same
WriteRejectAcknowledging(i) ==
  LET d == drivers[i]
      a == AcknowledgeChunk(state, chunkSize, d.fileKey)
      r == IF a.err = "ok" THEN Drive(a.state, [d EXCEPT !.acked = @ + 1, !.streak = 0])
           ELSE Caught(a.state, d)
  IN /\ d.pc = "writing"
     /\ drivers' = [drivers EXCEPT ![i] =
                      Called(r.drv, acks[d.fileKey] + IF a.err = "ok" THEN 1 ELSE 0)]
     /\ state' = r.state
     /\ acks' = IF a.err = "ok" THEN [acks EXCEPT ![d.fileKey] = @ + 1] ELSE acks
     /\ lastRange' = Sliced(IF a.err = "ok" THEN [lastRange EXCEPT ![d.fileKey] = NoRange]
                            ELSE lastRange, r.drv)
     /\ alerted' = NoAlert
     /\ delivered' = NoDelivery
     /\ UNCHANGED <<chunkSize, unreadable, subscribers, clock, manual, clicks>>

\* writer.write(chunk) rejects
WriteReject(i) ==
  LET r == Caught(state, drivers[i])
  IN /\ drivers[i].pc = "writing"
     /\ drivers' = [drivers EXCEPT ![i] = Called(r.drv, acks[drivers[i].fileKey])]
     /\ state' = r.state
     /\ lastRange' = Sliced(lastRange, r.drv)
     /\ alerted' = NoAlert
     /\ delivered' = NoDelivery
     /\ UNCHANGED <<chunkSize, unreadable, subscribers, clock, manual, clicks, acks>>

(* ------------------------------ Next ---------------------------------- *)

Next ==
  \/ OnFileSelect /\ UNCHANGED heard
  \/ OnFileSelectNone /\ UNCHANGED heard
  \/ \E k \in TypedKeys, plan \in Plans(subscribers) : ClickAcknowledge(k, plan) /\ UNCHANGED heard
  \/ \E k \in TypedKeys : ClickRead(k) /\ UNCHANGED heard
  \/ \E i \in 1..Len(manual), plan \in Plans(subscribers) : ClickReadLoad(i, plan) /\ UNCHANGED heard
  \/ \E i \in 1..Len(manual) : ClickReadNoChunk(i) /\ UNCHANGED heard
  \/ \E i \in 1..Len(manual) : ClickReadError(i) /\ UNCHANGED heard
  \/ \E i \in 1..Len(drivers) : PickerResolve(i) /\ UNCHANGED heard
  \/ \E i \in 1..Len(drivers) : OpenReject(i) /\ UNCHANGED heard
  \/ \E i \in 1..Len(drivers) : CreateResolve(i) /\ UNCHANGED heard
  \/ \E i \in 1..Len(drivers), plan \in Plans(subscribers) : ReadLoad(i, plan) /\ UNCHANGED heard
  \/ \E i \in 1..Len(drivers) : ReadNoChunk(i) /\ UNCHANGED heard
  \/ \E i \in 1..Len(drivers) : ReadError(i) /\ UNCHANGED heard
  \/ \E i \in 1..Len(drivers), plan \in Plans(subscribers) : WriteResolve(i, plan) /\ UNCHANGED heard
  \/ \E i \in 1..Len(drivers) : WriteReject(i) /\ UNCHANGED heard

\* the page with the driver as the only subscriber
Spec == Init /\ [][Next]_vars

(* ------------------- a file with an unreadable range ----------------- *)

\* The driver alone with a file whose byte range starting at `unreadable' fails
\* on every read, while every other read and every write succeeds.
SevenChunks == 0..(7 * ChunkSize)

InitUnreadable ==
  /\ chunkSize = ChunkSize
  /\ unreadable \in {n \in SevenChunks : n % ChunkSize = 0 /\ n < 7 * ChunkSize}
  /\ Loaded

Readable(i) == drivers[i].chunk # NoRange /\ drivers[i].chunk[1] # unreadable
Unreadable(i) == drivers[i].chunk # NoRange /\ drivers[i].chunk[1] = unreadable

NextUnreadable ==
  \/ OnFileSelectOf(SevenChunks) /\ UNCHANGED heard
  \/ \E i \in 1..Len(drivers) : PickerResolve(i) /\ UNCHANGED heard
  \/ \E i \in 1..Len(drivers) : CreateResolve(i) /\ UNCHANGED heard
  \/ \E i \in 1..Len(drivers), plan \in Plans(subscribers) : Readable(i) /\ ReadLoad(i, plan) /\ UNCHANGED heard
  \/ \E i \in 1..Len(drivers) : Unreadable(i) /\ ReadNoChunk(i) /\ UNCHANGED heard
  \/ \E i \in 1..Len(drivers) : Unreadable(i) /\ ReadError(i) /\ UNCHANGED heard
  \/ \E i \in 1..Len(drivers), plan \in Plans(subscribers) : WriteResolve(i, plan) /\ UNCHANGED heard

SpecUnreadable == InitUnreadable /\ [][NextUnreadable]_vars

\* the page with callbacks that subscribe, unsubscribe and record what they get
NextSubs ==
  \/ Next
  \/ \E s \in Listeners : Subscribe(s) /\ UNCHANGED heard
  \/ \E s \in Listeners : Unsubscribe(s) /\ UNCHANGED heard

SpecSubs == Init /\ [][NextSubs]_vars

(* ------------- two selections in the same millisecond --------------- *)

\* onFileSelect for a file with the name of the previous one while Date.now()
\* still returns the same value: file.name + Date.now() is the same fileKey
OnFileSelectSameTick ==
  \E name \in Names, size \in Sizes, plan \in Plans(subscribers) :
    /\ FileKey(name, clock) \in DOMAIN state
    /\ Len(drivers) < MaxFiles + 1
    /\ Selected(name, size, clock, plan)

\* selections, and drivers whose reads and writes all succeed
NextSameTick ==
  \/ OnFileSelect /\ UNCHANGED heard
  \/ OnFileSelectSameTick /\ UNCHANGED heard
  \/ \E i \in 1..Len(drivers) : PickerResolve(i) /\ UNCHANGED heard
  \/ \E i \in 1..Len(drivers) : CreateResolve(i) /\ UNCHANGED heard
  \/ \E i \in 1..Len(drivers), plan \in Plans(subscribers) : ReadLoad(i, plan) /\ UNCHANGED heard
  \/ \E i \in 1..Len(drivers), plan \in Plans(subscribers) : WriteResolve(i, plan) /\ UNCHANGED heard

SpecSameTick == Init /\ [][NextSameTick]_vars

(* ------------------- a subscriber that throws ------------------------- *)

\* subscribers.forEach when the callback s throws: the subscribers before s
\* and s itself have been called, the rest are not, and the exception leaves
\* forEach and the function that called it
UpTo(subs, s) ==
  LET at == CHOOSE j \in 1..Len(subs) : subs[j] = s
  IN SubSeq(subs, 1, at)

\* click on the acknowledgeChunk button when listener s throws on
\* chunk-acknowledge: lines 73-77 have run, line 78 throws, withError alerts
ClickAcknowledgeThrown(fileKey, s) ==
  LET a == AcknowledgeChunk(state, chunkSize, fileKey)
  IN /\ InSeq(s, subscribers)
     /\ a.err = "ok"
     /\ clicks < MaxClicks
     /\ clicks' = clicks + 1
     /\ state' = a.state
     /\ delivered' = Delivery(Event("chunk-acknowledge", fileKey), UpTo(subscribers, s))
     /\ lastRange' = [lastRange EXCEPT ![fileKey] = NoRange]
     /\ alerted' = Alert("acknowledgeChunk", fileKey, "thrown")
     /\ UNCHANGED <<chunkSize, unreadable, subscribers, clock, drivers, manual, acks>>

\* writer.write(chunk) resolves and the driver's acknowledgeChunk throws out
\* of listener s: the window has advanced, the catch block counts an error,
\* the next turn of the loop reads the next window
WriteResolveThrown(i, s) ==
  LET d == [drivers[i] EXCEPT !.written = Append(@, drivers[i].chunk)]
      a == AcknowledgeChunk(state, chunkSize, d.fileKey)
      r == Caught(a.state, d)
  IN /\ InSeq(s, subscribers)
     /\ drivers[i].pc = "writing"
     /\ a.err = "ok"
     /\ drivers' = [drivers EXCEPT ![i] = Called(r.drv, acks[d.fileKey])]
     /\ state' = r.state
     /\ delivered' = Delivery(Event("chunk-acknowledge", d.fileKey), UpTo(subscribers, s))
     /\ lastRange' = Sliced([lastRange EXCEPT ![d.fileKey] = NoRange], r.drv)
     /\ alerted' = NoAlert
     /\ UNCHANGED <<chunkSize, unreadable, subscribers, clock, manual, clicks, acks>>

\* the page with listeners that may throw when called with chunk-acknowledge
NextThrowing ==
  \/ OnFileSelect /\ UNCHANGED heard
  \/ \E s \in Listeners : Subscribe(s) /\ UNCHANGED heard
  \/ \E k \in TypedKeys, plan \in Plans(subscribers) : ClickAcknowledge(k, plan) /\ UNCHANGED heard
  \/ \E k \in Keys, s \in Listeners : ClickAcknowledgeThrown(k, s) /\ UNCHANGED heard
  \/ \E i \in 1..Len(drivers) : PickerResolve(i) /\ UNCHANGED heard
  \/ \E i \in 1..Len(drivers) : CreateResolve(i) /\ UNCHANGED heard
  \/ \E i \in 1..Len(drivers), plan \in Plans(subscribers) : ReadLoad(i, plan) /\ UNCHANGED heard
  \/ \E i \in 1..Len(drivers) : ReadNoChunk(i) /\ UNCHANGED heard
  \/ \E i \in 1..Len(drivers), plan \in Plans(subscribers) : WriteResolve(i, plan) /\ UNCHANGED heard
  \/ \E i \in 1..Len(drivers), s \in Listeners : WriteResolveThrown(i, s) /\ UNCHANGED heard
  \/ \E i \in 1..Len(drivers) : WriteReject(i) /\ UNCHANGED heard

SpecThrowing == Init /\ [][NextThrowing]_vars

(* ------------------- what each listener is called with --------------- *)

\* one more event name after a trace that stands at q in the pattern
\* file-select (chunk-read+ chunk-acknowledge)* chunk-read*
Move(q, name) ==
  CASE q = "none" /\ name = "file-select" -> "selected"
    [] q = "selected" /\ name = "chunk-read" -> "read"
    [] q = "read" /\ name = "chunk-read" -> "read"
    [] q = "read" /\ name = "chunk-acknowledge" -> "selected"
    [] OTHER -> "bad"

\* the step's calls of the listeners added to their traces; stayed: the
\* listener was in the Set when the key was registered and ever since
Hear ==
  heard' = [p \in Listeners \X Keys |->
              LET s == p[1]
                  k == p[2]
                  got == delivered'.event.fileKey = k /\ InSeq(s, delivered'.to)
              IN [q |-> IF got THEN Move(heard[p].q, delivered'.event.name) ELSE heard[p].q,
                  stayed |-> IF k \notin DOMAIN state /\ k \in DOMAIN state'
                             THEN InSeq(s, subscribers) /\ InSeq(s, subscribers')
                             ELSE heard[p].stayed /\ InSeq(s, subscribers')]]

\* files driven by the driver alone (no UDPSocket click), with listeners
\* that subscribe and unsubscribe at any time
NextTraces ==
  \/ OnFileSelect /\ Hear
  \/ \E s \in Listeners : Subscribe(s) /\ Hear
  \/ \E s \in Listeners : Unsubscribe(s) /\ Hear
  \/ \E i \in 1..Len(drivers) : PickerResolve(i) /\ Hear
  \/ \E i \in 1..Len(drivers) : CreateResolve(i) /\ Hear
  \/ \E i \in 1..Len(drivers), plan \in Plans(subscribers) : ReadLoad(i, plan) /\ Hear
  \/ \E i \in 1..Len(drivers) : ReadNoChunk(i) /\ Hear
  \/ \E i \in 1..Len(drivers), plan \in Plans(subscribers) : WriteResolve(i, plan) /\ Hear
  \/ \E i \in 1..Len(drivers) : WriteReject(i) /\ Hear

SpecTraces == Init /\ [][NextTraces]_vars

(* --------------- every read and every write completes ---------------- *)

\* the FileReader of a driver's read finishes: load with bytes, load without
\* usable bytes, or the error event
ReadCompletes ==
  /\ \E i \in 1..Len(drivers) :
       \/ \E plan \in Plans(subscribers) : ReadLoad(i, plan)
       \/ ReadNoChunk(i)
       \/ ReadError(i)
  /\ UNCHANGED heard

\* the promise of a driver's writer.write settles
WriteCompletes ==
  /\ \E i \in 1..Len(drivers) :
       \/ \E plan \in Plans(subscribers) : WriteResolve(i, plan)
       \/ WriteReject(i)
  /\ UNCHANGED heard

\* the page when no FileReader and no write stays unfinished for ever
SpecCompleting ==
  /\ Init /\ [][Next]_vars
  /\ WF_vars(ReadCompletes)
  /\ WF_vars(WriteCompletes)

(* ============================== claims ================================ *)

CeilDiv(a, b) == (a + b - 1) \div b

\* the registry after n acknowledgeChunk(fileKey) calls in a row
RECURSIVE AckTimes(_, _, _, _)
AckTimes(st, c, fileKey, n) ==
  IF n = 0 THEN st
  ELSE AckTimes(AcknowledgeChunk(st, c, fileKey).state, c, fileKey, n - 1)

\* C1: in every reachable state chunkSize > 0 and every registered window has
\* 0 <= left <= right <= file.size and right - left <= chunkSize.
C1_WindowBounds ==
  /\ chunkSize > 0
  /\ \A k \in DOMAIN state :
       /\ 0 <= state[k].left
       /\ state[k].left <= state[k].right
       /\ state[k].right <= state[k].size
       /\ state[k].right - state[k].left <= chunkSize

\* an advanced window holding a last chunk shorter than chunkSize
C1_Witness ==
  \E k \in DOMAIN state :
    /\ state[k].left > 0
    /\ state[k].left < state[k].right
    /\ state[k].right = state[k].size
    /\ state[k].right - state[k].left < chunkSize

\* 100000 bytes in chunks of 1024 * 16, acknowledged eight times in a row
Scenario100000 ==
  LET k == FileKey("a", 1)
      C == 1024 * 16
      st == [x \in {k} |-> NewWindow(C, 100000)]
  IN /\ \A n \in 0..6 : /\ HasNextChunk(AckTimes(st, C, k, n), k)
                        /\ AcknowledgeChunk(AckTimes(st, C, k, n), C, k).err = "ok"
     /\ Range(AckTimes(st, C, k, 6)[k]) = <<100000 - 1696, 100000>>
     /\ Range(AckTimes(st, C, k, 7)[k]) = <<100000, 100000>>
     /\ ~HasNextChunk(AckTimes(st, C, k, 7), k)
     /\ AcknowledgeChunk(AckTimes(st, C, k, 7), C, k).err = "eof"

\* C2: after k successful acknowledgeChunk calls on a key whose file has
\* length L, by whichever callers, the window is [min(k*C, L), min((k+1)*C, L));
\* exactly ceil(L/C) calls succeed, and acknowledgeChunk fails with "eof" (and
\* hasNextChunk is false) exactly when that many have succeeded. For L = 100000
\* and C = 16384: 7 chunks, the last of 1696 bytes, and an 8th call fails.
C2_WindowAfterAcks ==
  /\ \A k \in DOMAIN state :
       LET L == state[k].size
           C == chunkSize
           n == acks[k]
       IN /\ state[k].left = Min(n * C, L)
          /\ state[k].right = Min((n + 1) * C, L)
          /\ n <= CeilDiv(L, C)
          /\ (AcknowledgeChunk(state, C, k).err = "eof") <=> (n = CeilDiv(L, C))
          /\ HasNextChunk(state, k) <=> (n < CeilDiv(L, C))
          /\ (n = CeilDiv(L, C)) => (state[k].left = L /\ state[k].right = L)
  /\ (alerted.fn = "acknowledgeChunk" /\ alerted.e = "eof" /\ alerted.args \in DOMAIN state)
       => acks[alerted.args] = CeilDiv(state[alerted.args].size, chunkSize)
  /\ Scenario100000

\* one acknowledgement too many on a file whose last chunk is short
C2_Witness ==
  \E k \in DOMAIN state :
    /\ state[k].size % chunkSize # 0
    /\ state[k].size > 2 * chunkSize
    /\ acks[k] = CeilDiv(state[k].size, chunkSize)
    /\ alerted = Alert("acknowledgeChunk", k, "eof")

\* a step in which readChunk is called, is suspended in its FileReader, or
\* settles, and acknowledgeChunk is not called
ReadStep ==
  \/ \E k \in TypedKeys : ClickRead(k)
  \/ \E i \in 1..Len(manual), plan \in Plans(subscribers) : ClickReadLoad(i, plan)
  \/ \E i \in 1..Len(manual) : ClickReadNoChunk(i) \/ ClickReadError(i)
  \/ \E i \in 1..Len(drivers) : CreateResolve(i) \/ ReadNoChunk(i) \/ ReadError(i)
  \/ \E i \in 1..Len(drivers), plan \in Plans(subscribers) : ReadLoad(i, plan)
  \/ \E i \in 1..Len(drivers) : WriteReject(i)

\* C3: readChunk never changes a window, neither when it is called nor while
\* its read is pending nor when it settles; and a readChunk call that follows
\* another on the same key with no acknowledgeChunk on that key in between
\* takes the same slice [left, right).
C3_ReadIsIdempotent ==
  [][/\ ReadStep => state' = state
     /\ \A k \in DOMAIN state :
          (lastRange[k] # NoRange /\ lastRange'[k] # NoRange /\ acks'[k] = acks[k])
            => lastRange'[k] = lastRange[k]]_vars

\* the driver reads a window again while a UDPSocket read of it is pending
C3_Witness ==
  \E i \in 1..Len(drivers), j \in 1..Len(manual) :
    /\ drivers[i].pc = "reading"
    /\ drivers[i].reads >= 2
    /\ manual[j].fileKey = drivers[i].fileKey
    /\ manual[j].chunk = drivers[i].chunk
    /\ lastRange[drivers[i].fileKey] = drivers[i].chunk

\* nothing of the store changed and no listener was called
Untouched ==
  /\ state' = state
  /\ acks' = acks
  /\ subscribers' = subscribers
  /\ delivered' = NoDelivery

\* C4 as stated: acknowledgeChunk and readChunk fail with "no-file" when the
\* key is absent (whatever string it is) and with "eof" when it is present
\* with left = right; a failing call changes nothing in the store, notifies
\* nobody and (readChunk) starts no FileReader, however often it is repeated;
\* any other call does not fail at once. The driver's own acknowledgeChunk on
\* an exhausted window fails too and is counted as an error.
C4_FailingCalls ==
  [][/\ \A k \in TypedKeys :
          (\E plan \in Plans(subscribers) : ClickAcknowledge(k, plan)) =>
            IF k \notin DOMAIN state
            THEN alerted' = Alert("acknowledgeChunk", k, "no-file") /\ Untouched
            ELSE IF state[k].left = state[k].right
            THEN alerted' = Alert("acknowledgeChunk", k, "eof") /\ Untouched
            ELSE alerted' = NoAlert /\ acks'[k] = acks[k] + 1
     /\ \A k \in TypedKeys :
          ClickRead(k) =>
            IF k \notin DOMAIN state
            THEN alerted' = Alert("readChunk", k, "no-file") /\ Untouched /\ manual' = manual
            ELSE IF state[k].left = state[k].right
            THEN alerted' = Alert("readChunk", k, "eof") /\ Untouched /\ manual' = manual
            ELSE alerted' = NoAlert /\ Len(manual') = Len(manual) + 1
     /\ \A i \in 1..Len(drivers) :
          ((\E plan \in Plans(subscribers) : WriteResolve(i, plan))
             /\ ~HasNextChunk(state, drivers[i].fileKey)) =>
            Untouched /\ drivers'[i].errorCount = drivers[i].errorCount + 1]_vars

\* acknowledgeChunk has just failed with "eof" on a file that was transferred
\* to its end, with a listener subscribed
C4_Witness ==
  \E k \in DOMAIN state :
    /\ alerted = Alert("acknowledgeChunk", k, "eof")
    /\ state[k].size > 0
    /\ state[k].left = state[k].size
    /\ Len(subscribers) > 1

\* the chunks of a file of L bytes cut every c bytes, in offset order
Chunks(c, L) == [j \in 1..CeilDiv(L, c) |-> <<(j - 1) * c, Min(j * c, L)>>]

\* the driver for a key has left its loop with nothing more to read
Exhausted(i) ==
  /\ drivers[i].pc = "done"
  /\ ~HasNextChunk(state, drivers[i].fileKey)

\* C5 as stated: whenever the driver's loop for key K ends with hasNextChunk(K)
\* false, the successful writes for K are exactly its ceil(L/C) chunks in
\* increasing offset order, each once.
C5_AllChunksWritten ==
  \A i \in 1..Len(drivers) :
    Exhausted(i) =>
      drivers[i].written = Chunks(chunkSize, state[drivers[i].fileKey].size)

\* C5 with its missing hypothesis: if every successful acknowledgeChunk(K) was
\* the driver's own (nobody else acknowledged K, which is registered once),
\* then a loop that ends with hasNextChunk(K) false has written exactly the
\* ceil(L/C) chunks of K in increasing offset order, each once.
C5_AllChunksWrittenBySoleAcknowledger ==
  \A i \in 1..Len(drivers) :
    (Exhausted(i) /\ acks[drivers[i].fileKey] = drivers[i].acked) =>
      /\ drivers[i].written = Chunks(chunkSize, state[drivers[i].fileKey].size)
      /\ drivers[i].acked = CeilDiv(state[drivers[i].fileKey].size, chunkSize)

\* a transfer of more than one chunk that finished after a retried failure,
\* acknowledged by the driver alone
C5_Witness ==
  \E i \in 1..Len(drivers) :
    /\ Exhausted(i)
    /\ acks[drivers[i].fileKey] = drivers[i].acked
    /\ Len(drivers[i].written) >= 2
    /\ drivers[i].errorCount >= 1

\* the writer of a driver is open exactly while its loop runs and closed, by
\* one call of close(), exactly when the loop has ended
SinkSession(d) ==
  /\ d.closes <= 1
  /\ d.pc \in {"picker", "creating", "aborted"} <=> d.sink = "none"
  /\ d.pc \in {"reading", "writing"} <=> d.sink = "open"
  /\ d.pc = "done" <=> d.sink = "closed"
  /\ d.pc = "done" <=> d.closes = 1
  /\ d.pc = "done" => (~HasNextChunk(state, d.fileKey) \/ d.errorCount = 3)

\* C6: every writer the driver opens is closed exactly once when the loop
\* ends, whether nothing is left to read or three failures were counted, and
\* after the close the driver issues no write, read or second close.
C6_ClosedOnceOnExit ==
  [][\A i \in 1..Len(drivers') :
       /\ SinkSession(drivers[i])'
       /\ (i <= Len(drivers) /\ drivers[i].sink = "closed") => drivers'[i] = drivers[i]]_vars

\* a transfer abandoned after a successful write and three failures, closed
C6_Witness ==
  \E i \in 1..Len(drivers) :
    /\ drivers[i].pc = "done"
    /\ drivers[i].errorCount = 3
    /\ HasNextChunk(state, drivers[i].fileKey)
    /\ Len(drivers[i].written) >= 1
    /\ drivers[i].sink = "closed"
    /\ drivers[i].closes = 1

\* nothing the driver awaits is outstanding: the picker and createWritable
\* have answered, no write is in flight and no FileReader is still loading
Settled(d) ==
  /\ d.pc \notin {"picker", "creating", "writing"}
  /\ d.reader # "loading"

\* C7: with a file whose chunk k (starting at `unreadable') fails on every
\* read while everything else succeeds, once nothing is outstanding the driver
\* has made exactly 3 failed attempts on that window and has left its loop:
\* left is (k-1)*C, exactly the first k-1 chunks were written and
\* acknowledged, and the writer is closed.
C7_AbandonsAtUnreadableChunk ==
  \A i \in 1..Len(drivers) :
    LET d == drivers[i]
        w == state[d.fileKey]
        before == unreadable \div chunkSize
    IN (unreadable < w.size /\ Settled(d)) =>
         /\ d.pc = "done"
         /\ d.errorCount = 3
         /\ d.reads = before + 3
         /\ w.left = unreadable
         /\ d.written = SubSeq(Chunks(chunkSize, w.size), 1, before)
         /\ d.acked = before
         /\ d.sink = "closed" /\ d.closes = 1

\* chunk 3 of 7 was rejected three times: 2 chunks delivered, 5 not
C7_Witness ==
  \E i \in 1..Len(drivers) :
    LET d == drivers[i]
        w == state[d.fileKey]
    IN /\ CeilDiv(w.size, chunkSize) = 7
       /\ unreadable = 2 * chunkSize
       /\ d.pc = "done" /\ d.errorCount = 3
       /\ Len(d.written) = 2
       /\ CeilDiv(w.size - w.left, chunkSize) = 5
       /\ d.sink = "closed"

\* how many times the step just taken called listener s with event e
Received(s, e) ==
  IF delivered'.event = e
  THEN Cardinality({j \in 1..Len(delivered'.to) : delivered'.to[j] = s})
  ELSE 0

\* the step just taken registered fileKey / acknowledged a chunk of fileKey
Registers(fileKey) == fileKey \notin DOMAIN state /\ fileKey \in DOMAIN state'
Acknowledges(fileKey) ==
  fileKey \in DOMAIN state /\ fileKey \in DOMAIN state' /\ acks'[fileKey] = acks[fileKey] + 1

\* C8: every call of onFileSelect with a file calls each subscriber that stays
\* subscribed exactly once with file-select for the new key, and every
\* successful acknowledgeChunk calls it exactly once with chunk-acknowledge
\* for that key, inside the call itself (so in the order of the calls); the
\* driver callback is started once per file; a step that is neither, a failed
\* acknowledgeChunk included, delivers neither event.
C8_OneEventPerCall ==
  [][/\ \A s \in Listeners, k \in Keys :
          (InSeq(s, subscribers) /\ InSeq(s, subscribers')) =>
            /\ Received(s, Event("file-select", k)) = IF Registers(k) THEN 1 ELSE 0
            /\ Received(s, Event("chunk-acknowledge", k)) = IF Acknowledges(k) THEN 1 ELSE 0
     /\ \A k \in TypedKeys :
          /\ delivered'.event = Event("file-select", k) => Registers(k)
          /\ delivered'.event = Event("chunk-acknowledge", k) => Acknowledges(k)
          /\ Registers(k) => drivers' = Append(drivers, NewDriver(k))
     /\ alerted' # NoAlert => delivered' = NoDelivery]_vars

\* two listeners have both just been called with chunk-acknowledge and both
\* are still subscribed
C8_Witness ==
  /\ delivered.event \in {Event("chunk-acknowledge", k) : k \in Keys}
  /\ delivered.to = <<"s1", "s2">> \/ delivered.to = <<"s2", "s1">>
  /\ InSeq("s1", subscribers) /\ InSeq("s2", subscribers)

\* C9 as stated: a notification calls every listener that was subscribed
\* when it started, whatever unsubscribe handles the callbacks invoke during
\* it, and calls no listener that had unsubscribed before it.
C9_SnapshotDelivery ==
  [][\A s \in Listeners :
       /\ (delivered'.event # NoEvent /\ InSeq(s, subscribers)) => InSeq(s, delivered'.to)
       /\ ~InSeq(s, subscribers) => ~InSeq(s, delivered'.to)]_vars

\* C10: a file of size 0 gets the window left = right = 0: hasNextChunk is
\* false from registration on, readChunk and acknowledgeChunk fail with "eof",
\* no FileReader is ever started on it, and its driver, once the writer is
\* open, leaves the loop without a read, a write or a counted error and closes
\* the writer.
C10_ZeroLength ==
  \A k \in DOMAIN state :
    state[k].size = 0 =>
      /\ state[k].left = 0 /\ state[k].right = 0
      /\ ~HasNextChunk(state, k)
      /\ ReadChunk(state, k).err = "eof" /\ ReadChunk(state, k).state = state
      /\ AcknowledgeChunk(state, chunkSize, k).err = "eof"
      /\ AcknowledgeChunk(state, chunkSize, k).state = state
      /\ lastRange[k] = NoRange
      /\ acks[k] = 0
      /\ \A j \in 1..Len(manual) : manual[j].fileKey # k
      /\ \A i \in 1..Len(drivers) :
           drivers[i].fileKey = k =>
             /\ drivers[i].reads = 0
             /\ drivers[i].written = <<>>
             /\ drivers[i].errorCount = 0
             /\ drivers[i].pc \in {"picker", "creating", "aborted", "done"}
             /\ drivers[i].pc = "done" => drivers[i].sink = "closed" /\ drivers[i].closes = 1

\* the driver of an empty file has opened and closed its writer, and a
\* readChunk click on the file has just failed with "eof"
C10_Witness ==
  \E i \in 1..Len(drivers) :
    /\ state[drivers[i].fileKey].size = 0
    /\ drivers[i].pc = "done"
    /\ drivers[i].sink = "closed"
    /\ alerted = Alert("readChunk", drivers[i].fileKey, "eof")

\* C11: hasNextChunk(K) is true exactly when K is registered with
\* left # right and is false, not an error, for an unknown key; and a
\* registered window has left = right exactly when left = file.size, so
\* hasNextChunk(K) is false for a registered key exactly when no byte remains.
C11_HasNextChunk ==
  \A k \in TypedKeys :
    /\ HasNextChunk(state, k) \in BOOLEAN
    /\ HasNextChunk(state, k) <=> (k \in DOMAIN state /\ state[k].left # state[k].right)
    /\ k \in DOMAIN state =>
         /\ state[k].left = state[k].right <=> state[k].left = state[k].size
         /\ ~HasNextChunk(state, k) <=> state[k].size - state[k].left = 0

\* a file of more than one chunk whose window has reached its end
C11_Witness ==
  \E k \in DOMAIN state :
    /\ state[k].size > chunkSize
    /\ state[k].left = state[k].size
    /\ ~HasNextChunk(state, k)

\* no call of readChunk is left waiting on a FileReader that has finished
Completed ==
  /\ \A j \in 1..Len(manual) : manual[j].reader = "loading"
  /\ \A i \in 1..Len(drivers) : drivers[i].pc = "reading" => drivers[i].reader = "loading"

\* C12 as stated: a readChunk call on a registered key with left # right
\* completes once its FileReader has finished: with the bytes and one
\* chunk-read notification, or rejected when the read has an I/O problem or
\* gives no usable bytes, never left pending, and then with no chunk-read.
C12_ReadCompletes ==
  [][/\ Completed'
     /\ \A i \in 1..Len(manual) :
          /\ (\E plan \in Plans(subscribers) : ClickReadLoad(i, plan)) =>
               \A s \in Listeners :
                 InSeq(s, subscribers) /\ InSeq(s, subscribers')
                   => Received(s, Event("chunk-read", manual[i].fileKey)) = 1
          /\ ClickReadNoChunk(i) =>
               /\ alerted' = Alert("readChunk", manual[i].fileKey, "no-chunk")
               /\ delivered' = NoDelivery
          /\ ClickReadError(i) => delivered' = NoDelivery]_vars

\* C13 as stated: a driver that has left its loop while hasNextChunk is still
\* true has just had three failed iterations in a row, with no successful
\* read-write-acknowledge iteration between them.
C13_ThreeConsecutiveFailures ==
  \A i \in 1..Len(drivers) :
    (drivers[i].pc = "done" /\ HasNextChunk(state, drivers[i].fileKey))
      => drivers[i].streak = 3

\* C13 with "consecutive" replaced by what errorCount counts: it is never
\* reset, so it is the number of failed iterations since the loop started
\* (iterations begun minus iterations acknowledged); the loop runs only while
\* it is below 3, and a driver that has left its loop while hasNextChunk is
\* still true has had exactly three failed iterations in total.
C13_ThreeFailuresInTotal ==
  \A i \in 1..Len(drivers) :
    LET d == drivers[i] IN
      /\ d.errorCount <= 3
      /\ d.streak <= d.errorCount
      /\ d.pc \in {"reading", "writing"} =>
           d.errorCount < 3 /\ d.errorCount = d.reads - 1 - d.acked
      /\ d.pc = "done" => d.errorCount = d.reads - d.acked
      /\ (d.pc = "done" /\ HasNextChunk(state, d.fileKey)) => d.errorCount = 3

\* a transfer abandoned at its third failure although an iteration succeeded
\* between the failures
C13_Witness ==
  \E i \in 1..Len(drivers) :
    /\ drivers[i].pc = "done"
    /\ HasNextChunk(state, drivers[i].fileKey)
    /\ drivers[i].errorCount = 3
    /\ drivers[i].streak < 3
    /\ drivers[i].acked >= 1

\* the writer of the i-th driver started, "none" while there is no such driver
SinkOf(i) == IF i <= Len(drivers) THEN drivers[i].sink ELSE "none"

\* C14 as stated: when every FileReader and every write finishes, a driver
\* whose writer is open leaves its loop and closes the writer, after at most
\* ceil(L/C) + 3 iterations.
C14_LoopTerminates ==
  \A i \in 1..MaxFiles :
    /\ [](SinkOf(i) = "open" => <>(SinkOf(i) = "closed"))
    /\ [](IF i <= Len(drivers)
          THEN drivers[i].reads <= CeilDiv(state[drivers[i].fileKey].size, chunkSize) + 3
          ELSE TRUE)

\* C15: the driver of a file has at most one operation outstanding. It calls
\* readChunk only when its previous read or write has just completed, it
\* acknowledges only in the step in which its write of the chunk it last read
\* succeeds, and its acknowledgements a and successful writes w always
\* satisfy a <= w <= a + 1.
C15_OneChunkOutstanding ==
  [][\A i \in 1..Len(drivers') :
       LET e == drivers'[i] IN
         /\ e.acked <= Len(e.written) /\ Len(e.written) <= e.acked + 1
         /\ e.pc = "reading" <=> e.reader \in {"loading", "failed"}
         /\ e.pc = "reading" <=> e.chunk # NoRange /\ e.pc # "writing"
         /\ i <= Len(drivers) =>
              LET d == drivers[i] IN
                /\ e.reads # d.reads =>
                     /\ e.reads = d.reads + 1
                     /\ e.pc = "reading" /\ e.reader = "loading"
                     /\ d.pc \in {"creating", "reading", "writing"}
                     /\ d.pc = "reading" => d.reader = "loading"
                /\ e.written # d.written =>
                     /\ d.pc = "writing"
                     /\ e.written = Append(d.written, d.chunk)
                /\ e.acked # d.acked =>
                     /\ e.acked = d.acked + 1
                     /\ d.pc = "writing"
                     /\ e.written = Append(d.written, d.chunk)]_vars

\* a second chunk was written but its acknowledgement failed: w = a + 1
C15_Witness ==
  \E i \in 1..Len(drivers) :
    /\ drivers[i].acked >= 1
    /\ Len(drivers[i].written) = drivers[i].acked + 1
    /\ drivers[i].pc = "done"

\* the step is the completion with bytes of the i-th driver's read / of the
\* j-th read started from the readChunk button
DriverReadReturns(i) == \E plan \in Plans(subscribers) : ReadLoad(i, plan)
ManualReadReturns(j) == \E plan \in Plans(subscribers) : ClickReadLoad(j, plan)

\* the step is a successful acknowledgeChunk by the i-th driver
DriverAcknowledges(i) ==
  /\ i <= Len(drivers') /\ drivers'[i].acked = drivers[i].acked + 1

\* C16 as stated: the range a read returns is the window of its key at the
\* moment the read completes, and the range the driver has written when it
\* acknowledges is the window it acknowledges, even when somebody else's
\* acknowledgeChunk came while the read was suspended.
C16_ReadsCurrentWindow ==
  [][/\ \A i \in 1..Len(drivers) :
          (DriverReadReturns(i) \/ DriverAcknowledges(i))
            => drivers[i].chunk = Range(state[drivers[i].fileKey])
     /\ \A j \in 1..Len(manual) :
          ManualReadReturns(j) => manual[j].chunk = Range(state[manual[j].fileKey])]_vars

\* C16 with the moment moved to the call: readChunk slices the window as it
\* is when the call is made and returns that range whatever happens while it
\* is suspended. The range is still the key's window when the read completes
\* exactly if no acknowledgeChunk on the key succeeded between the call and
\* the completion; and the range the driver has written is the window its own
\* acknowledgeChunk advances exactly if none succeeded between its readChunk
\* call and that acknowledgeChunk, the time its write was pending included;
\* when one did, the driver's acknowledgeChunk advances the later window, or
\* fails with "eof" and changes nothing if that window is exhausted.
C16_ReadsWindowAtCall ==
  [][/\ \A i \in 1..Len(drivers') :
          LET e == drivers'[i] IN
            /\ (i > Len(drivers) \/ e.reads # drivers[i].reads) /\ e.pc = "reading"
                 => e.chunk = Range(state'[e.fileKey]) /\ e.at = acks'[e.fileKey]
            /\ (i <= Len(drivers) /\ e.reads = drivers[i].reads
                  /\ e.pc \in {"reading", "writing"})
                 => e.chunk = drivers[i].chunk /\ e.at = drivers[i].at
     /\ \A i \in 1..Len(drivers) :
          (DriverReadReturns(i) \/ DriverAcknowledges(i))
            => (drivers[i].at = acks[drivers[i].fileKey]
                  <=> drivers[i].chunk = Range(state[drivers[i].fileKey]))
     /\ \A i \in 1..Len(drivers) :
          ((\E plan \in Plans(subscribers) : WriteResolve(i, plan))
             /\ drivers[i].at # acks[drivers[i].fileKey])
            => IF HasNextChunk(state, drivers[i].fileKey)
               THEN DriverAcknowledges(i)
               ELSE /\ drivers'[i].errorCount = drivers[i].errorCount + 1
                    /\ drivers'[i].acked = drivers[i].acked
                    /\ state' = state
     /\ \A j \in 1..Len(manual) :
          ManualReadReturns(j)
            => (manual[j].at = acks[manual[j].fileKey]
                  <=> manual[j].chunk = Range(state[manual[j].fileKey]))
     /\ Len(manual') > Len(manual)
          => LET m == manual'[Len(manual')] IN
               m.chunk = Range(state'[m.fileKey]) /\ m.at = acks'[m.fileKey]]_vars

\* the driver's read has returned a range that is no longer the window of its
\* key: the acknowledgeChunk button was clicked while the read was suspended
C16_Witness ==
  \E i \in 1..Len(drivers) :
    /\ drivers[i].pc = "writing"
    /\ drivers[i].at < acks[drivers[i].fileKey]
    /\ drivers[i].chunk # Range(state[drivers[i].fileKey])
    /\ HasNextChunk(state, drivers[i].fileKey)

\* C17 as stated: the window of a registered key changes only in a step that
\* is a successful acknowledgeChunk of that key, which advances it; reads,
\* hasNextChunk, the drivers of other files and every later onFileSelect
\* leave left, right and the file's size as they are.
C17_OnlyAcknowledgeMutates ==
  [][\A k \in DOMAIN state :
       /\ k \in DOMAIN state'
       /\ state'[k] # state[k] =>
            /\ acks'[k] = acks[k] + 1
            /\ state'[k] = Advance(chunkSize, state[k])]_vars

\* the chunks of the driver's file that it has not written, by index
Unwritten(st, d) ==
  LET all == Chunks(chunkSize, st[d.fileKey].size)
  IN {j \in DOMAIN all : ~InSeq(all[j], d.written)}

\* the driver left its loop with its third failure counted
Abandoned(d) == d.pc = "done" /\ d.errorCount = 3

\* left of the driver's key is where its first unwritten chunk starts
AtFirstUnwritten(st, d) ==
  /\ Unwritten(st, d) # {}
  /\ \E j \in Unwritten(st, d) :
       /\ \A h \in Unwritten(st, d) : j <= h
       /\ st[d.fileKey].left = (j - 1) * chunkSize

\* C18 as stated: whenever a driver has left its loop with errorCount = 3,
\* hasNextChunk of its key is true, left < file.size and left is the start of
\* the first chunk it has not written; and a driver that has left its loop
\* takes no further step.
C18_AbandonedAtFirstUnwritten ==
  [][\A i \in 1..Len(drivers') :
       /\ Abandoned(drivers'[i]) =>
            /\ HasNextChunk(state', drivers'[i].fileKey)
            /\ state'[drivers'[i].fileKey].left < state'[drivers'[i].fileKey].size
            /\ AtFirstUnwritten(state', drivers'[i])
       /\ (i <= Len(drivers) /\ drivers[i].pc = "done") => drivers'[i] = drivers[i]]_vars

\* C18 for a key that only its driver acknowledges: whenever the driver has
\* left its loop with errorCount = 3 and every successful acknowledgeChunk of
\* the key was the driver's, hasNextChunk is true, left < file.size, the
\* written chunks are the first `acked' chunks and left is the start of the
\* next one; and a driver that has left its loop takes no further step.
C18_AbandonedBySoleAcknowledger ==
  [][\A i \in 1..Len(drivers') :
       LET e == drivers'[i] IN
         /\ (Abandoned(e) /\ acks'[e.fileKey] = e.acked) =>
              /\ HasNextChunk(state', e.fileKey)
              /\ state'[e.fileKey].left < state'[e.fileKey].size
              /\ AtFirstUnwritten(state', e)
              /\ e.written = SubSeq(Chunks(chunkSize, state'[e.fileKey].size), 1, e.acked)
              /\ state'[e.fileKey].left = e.acked * chunkSize
         /\ (i <= Len(drivers) /\ drivers[i].pc = "done") => e = drivers[i]]_vars

\* a transfer abandoned after two chunks, acknowledged by the driver alone
C18_Witness ==
  \E i \in 1..Len(drivers) :
    /\ Abandoned(drivers[i])
    /\ acks[drivers[i].fileKey] = drivers[i].acked
    /\ drivers[i].acked = 2
    /\ state[drivers[i].fileKey].left = 2 * chunkSize
    /\ HasNextChunk(state, drivers[i].fileKey)

\* C19 as stated: a step in which acknowledgeChunk raises an error to its
\* caller, an error thrown by a subscriber included, leaves every window as
\* it was; so does every step in which a driver counts a failure, and the
\* read that follows is of the same window.
C19_AcknowledgeAllOrNothing ==
  [][/\ alerted'.fn = "acknowledgeChunk" => state' = state
     /\ \A i \in 1..Len(drivers) :
          drivers'[i].errorCount > drivers[i].errorCount =>
            /\ state' = state
            /\ drivers'[i].pc = "reading" => drivers'[i].chunk = Range(state[drivers[i].fileKey])]_vars

\* C20 as stated: for a key driven by the driver alone, the events every
\* listener is called with for the key form a trace of the pattern
\* file-select (chunk-read+ chunk-acknowledge)* chunk-read*.
C20_EveryTrace ==
  \A p \in Listeners \X Keys : heard[p].q # "bad"

\* C20 for the listeners that were subscribed when the key was registered and
\* have stayed subscribed: their trace for the key starts with its one
\* file-select and continues in the pattern (chunk-read+ chunk-acknowledge)*
\* chunk-read*, every chunk-acknowledge after a chunk-read for the same
\* window; after n acknowledgements and no read since, it stands after the
\* n-th chunk-acknowledge.
C20_TraceOfStayingListener ==
  \A p \in Listeners \X Keys :
    heard[p].stayed =>
      /\ p[2] \in DOMAIN state
      /\ heard[p].q \in {"selected", "read"}
      /\ heard[p].q = "read" =>
           \E i \in 1..Len(drivers) :
             /\ drivers[i].fileKey = p[2]
             /\ drivers[i].reads >= 1
             /\ drivers[i].pc = "writing" => drivers[i].chunk = Range(state[p[2]])
      /\ heard[p].q = "selected" =>
           \A i \in 1..Len(drivers) : drivers[i].fileKey = p[2] => drivers[i].pc # "writing"

\* a listener that stayed has heard two rounds of chunk-read and
\* chunk-acknowledge, one of them with a repeated read
C20_Witness ==
  \E p \in Listeners \X Keys :
    /\ heard[p].stayed
    /\ heard[p].q = "selected"
    /\ p[2] \in DOMAIN acks /\ acks[p[2]] >= 2
    /\ \E i \in 1..Len(drivers) : drivers[i].fileKey = p[2] /\ drivers[i].errorCount >= 1

====
